---- MODULE Spec2Model ----
(***************************************************************************)
(* Enhanced-OCR-Web-App: the table extraction pipeline                     *)
(* (src/table_extractors.py), the conversion functions                     *)
(* (src/enhanced_ocr.py) and the job runner (src/app.py).                  *)
(*                                                                         *)
(* The specifications share the operators below:                           *)
(*   SpecPage     extract_all_tables(pdf) on a one-page document, with     *)
(*                every library outcome of every backend;                  *)
(*   SpecExtract  extract_all_tables(pdf, page_nums) over any requested    *)
(*                page sequence, then pdf_to_docx on what it returned;     *)
(*   SpecDocx     pdf_to_docx on every page layout;                        *)
(*   Spec         upload_file / process_file jobs of the web application;  *)
(*   SpecService  the jobs together with the status, download and cleanup  *)
(*                routes and the passing of time.                          *)
(***************************************************************************)
EXTENDS Integers, Sequences, FiniteSets, TLC

(* ------------------------------ bounds --------------------------------- *)

\* Most tables one library call reports for a page.
MaxCand == 2

\* Most pages of a document (SpecExtract).
MaxPages == 2

\* Most page numbers requested of extract_all_tables (SpecExtract).
MaxReq == 2

\* Most jobs submitted (Spec).
MaxJobs == 1

\* Most times the clock is read to have advanced (SpecService).
MaxTicks == 2

\* Most text blocks of a page (pdf_to_docx).
MaxBlocks == 2

\* Most table regions page.find_tables() reports for a page (pdf_to_docx).
MaxRegions == 1

(* --------------------------- program constants ------------------------- *)

\* table_extractors.py:189  sample_rows = min(3, table.shape[0])
SampleRows == 3

\* table_extractors.py:190  sample_cols = min(3, table.shape[1])
SampleCols == 3

\* app.py:211 and :223  the age, in seconds, beyond which cleanup removes
Hour == 3600

(* ------------------------------ tables --------------------------------- *)
(* A pandas DataFrame: shape = (Len(rows), ncols), rows the cell values.   *)

Min(a, b) == IF a < b THEN a ELSE b

Frame(n, r) == [ncols |-> n, rows |-> r]

\* A frame with columns and no rows.
ZeroRows == Frame(2, << >>)

\* A frame with a row and no columns.
ZeroCols == Frame(0, << << >> >>)

\* A 1x1 frame whose only cell is the empty string.
Blank == Frame(1, << <<"">> >>)

\* Two 1x4 frames that agree on the first three columns only.
Wide1 == Frame(4, << <<"a", "b", "c", "d">> >>)

Wide2 == Frame(4, << <<"a", "b", "c", "e">> >>)

TableUniverse == {ZeroRows, ZeroCols, Blank, Wide1, Wide2}

\* A mutation of the emptiness test: len(table) == 0 in place of table.empty.
IsEmptyNoRows(t) == Len(t.rows) = 0

\* DataFrame.empty: some axis has length 0.
IsEmpty(t) == Len(t.rows) = 0 \/ t.ncols = 0

\* The library result of one backend call: the exception, or the frames.
Raise == [raise |-> TRUE, tables |-> << >>]

Returns(s) == [raise |-> FALSE, tables |-> s]

RECURSIVE SeqsUpTo(_, _)
SeqsUpTo(S, n) ==
  IF n = 0 THEN {<< >>}
  ELSE LET shorter == SeqsUpTo(S, n - 1)
       IN shorter \cup {Append(s, x) : s \in {q \in shorter : Len(q) = n - 1}, x \in S}

Outcomes == {Raise} \cup {Returns(s) : s \in SeqsUpTo(TableUniverse, MaxCand)}

(* ------------------------------ backends ------------------------------- *)

\* TableExtractorFactory.create_extractors: the factory's order.
create_extractors == <<"pymupdf", "camelot", "tabula">>

Backends == {create_extractors[i] : i \in 1..Len(create_extractors)}

\* PyMuPDFTableExtractor.extract_tables has no handler: the library's
\* exception leaves the call.
PyMuPDFExtractTables(lib) ==
  IF lib.raise THEN [raised |-> TRUE, tables |-> << >>]
  ELSE [raised |-> FALSE, tables |-> lib.tables]

\* CamelotTableExtractor.extract_tables: except Exception -> return [].
CamelotExtractTables(lib) ==
  IF lib.raise THEN [raised |-> FALSE, tables |-> << >>]
  ELSE [raised |-> FALSE, tables |-> lib.tables]

\* TabulaTableExtractor.extract_tables: except Exception -> return [].
TabulaExtractTables(lib) ==
  IF lib.raise THEN [raised |-> FALSE, tables |-> << >>]
  ELSE [raised |-> FALSE, tables |-> lib.tables]

extract_tables(e, lib) ==
  CASE e = "pymupdf" -> PyMuPDFExtractTables(lib)
    [] e = "camelot" -> CamelotExtractTables(lib)
    [] OTHER -> TabulaExtractTables(lib)

\* is_compatible: the base class answers True (PyMuPDF); Camelot wants
\* extractable text on the first page; Tabula wants a Java runtime.  A probe
\* that raises answers False, which is the same as the fact being absent.
is_compatible(e, text, java) ==
  CASE e = "pymupdf" -> TRUE
    [] e = "camelot" -> text
    [] OTHER -> java

\* compatible_extractors = [e for e in extractors if e.is_compatible(pdf_path)]
CompatibleExtractors(text, java) ==
  SelectSeq(create_extractors, LAMBDA e : is_compatible(e, text, java))

Range(n) == 1..n

Members(s) == {s[i] : i \in Range(Len(s))}

\* A mutation of the selection: the two priority loops in the other order.
SelectFromTabulaFirst(compatible) ==
  IF compatible = << >> THEN "pymupdf"
  ELSE IF "tabula" \in Members(compatible) THEN "tabula"
  ELSE IF "camelot" \in Members(compatible) THEN "camelot"
  ELSE compatible[1]

\* Camelot > Tabula > first compatible; PyMuPDF when nothing is compatible.
SelectFrom(compatible) ==
  IF compatible = << >> THEN "pymupdf"
  ELSE IF "camelot" \in Members(compatible) THEN "camelot"
  ELSE IF "tabula" \in Members(compatible) THEN "tabula"
  ELSE compatible[1]

get_best_extractor(text, java) == SelectFrom(CompatibleExtractors(text, java))

(* --------------------------- reconciliation ---------------------------- *)

SubRow(row, n) == SubSeq(row, 1, Min(n, Len(row)))

\* sample = table.iloc[:sample_rows, :sample_cols]; its values flattened.
RECURSIVE Flatten(_)
Flatten(rows) ==
  IF rows = << >> THEN << >> ELSE Head(rows) \o Flatten(Tail(rows))

Sample(t) ==
  LET sample_rows == Min(SampleRows, Len(t.rows))
      sample_cols == Min(SampleCols, t.ncols)
      top == SubSeq(t.rows, 1, sample_rows)
  IN Flatten([i \in 1..Len(top) |-> SubRow(top[i], sample_cols)])

\* A mutation of the signature: the whole grid in place of the sample.
SignatureWhole(t) == <<Len(t.rows), t.ncols, Flatten(t.rows)>>

\* signature = f"{shape_sig}:{data_sig}"
Signature(t) == <<Len(t.rows), t.ncols, Sample(t)>>

\* tables = [table for sublist in all_tables for table in sublist
\*           if not table.empty]
RECURSIVE FlattenNonEmpty(_)
FlattenNonEmpty(lists) ==
  IF lists = << >> THEN << >>
  ELSE SelectSeq(Head(lists), LAMBDA t : ~IsEmpty(t)) \o FlattenNonEmpty(Tail(lists))

\* A mutation of the loop: seen_signatures holds the last signature only.
RECURSIVE DedupAdjacent(_, _, _)
DedupAdjacent(tables, seen, unique) ==
  IF tables = << >> THEN unique
  ELSE LET t == Head(tables)
       IN IF IsEmpty(t) \/ Signature(t) \in seen
          THEN DedupAdjacent(Tail(tables), seen, unique)
          ELSE DedupAdjacent(Tail(tables), {Signature(t)}, Append(unique, t))

RECURSIVE Dedup(_, _, _)
Dedup(tables, seen, unique) ==
  IF tables = << >> THEN unique
  ELSE LET t == Head(tables)
       IN IF IsEmpty(t) \/ Signature(t) \in seen
          THEN Dedup(Tail(tables), seen, unique)
          ELSE Dedup(Tail(tables), seen \cup {Signature(t)}, Append(unique, t))

\* A mutation of combine_tables: unique_tables.insert(0, table).
RECURSIVE DedupFront(_, _, _)
DedupFront(tables, seen, unique) ==
  IF tables = << >> THEN unique
  ELSE LET t == Head(tables)
       IN IF IsEmpty(t) \/ Signature(t) \in seen
          THEN DedupFront(Tail(tables), seen, unique)
          ELSE DedupFront(Tail(tables), seen \cup {Signature(t)}, <<t>> \o unique)

combine_tables_front(all_tables) ==
  IF all_tables = << >> THEN << >>
  ELSE DedupFront(FlattenNonEmpty(all_tables), {}, << >>)

combine_tables(all_tables) ==
  IF all_tables = << >> THEN << >>
  ELSE Dedup(FlattenNonEmpty(all_tables), {}, << >>)

(* ------------------- one iteration of the page loop -------------------- *)
(* lib[e] is what e's library does for this page of this file; the file    *)
(* does not change between two calls, so a rerun meets the same outcome.   *)

\* for extractor in create_extractors(): if extractor.is_compatible(...)
RECURSIVE TryAll(_, _, _, _, _)
TryAll(i, text, java, lib, acc) ==
  IF i > Len(create_extractors) \/ acc.raised THEN acc
  ELSE LET e == create_extractors[i]
           out == extract_tables(e, lib[e])
       IN IF ~is_compatible(e, text, java)
          THEN TryAll(i + 1, text, java, lib, acc)
          ELSE TryAll(i + 1, text, java, lib,
                 [raised |-> out.raised,
                  calls |-> Append(acc.calls, e),
                  page_tables |-> IF out.raised \/ out.tables = << >>
                                  THEN acc.page_tables
                                  ELSE Append(acc.page_tables, out.tables)])

\* Lines 216-235: the selected backend, the rerun, the reconciliation.
RunPage(text, java, lib) ==
  LET best == get_best_extractor(text, java)
      first == extract_tables(best, lib[best])
      start == [raised |-> first.raised, calls |-> <<best>>,
                page_tables |-> IF first.tables = << >> THEN << >>
                                ELSE <<first.tables>>]
      run == IF first.raised \/ first.tables # << >> THEN start
             ELSE TryAll(1, text, java, lib, start)
  IN [extractor |-> best,
      first |-> first.tables,
      raised |-> run.raised,
      calls |-> run.calls,
      page_tables |-> run.page_tables,
      unique |-> IF run.raised THEN << >> ELSE combine_tables(run.page_tables)]

\* The library outcomes a page can meet: one per backend.  When the selected
\* backend alone is called the other libraries' outcomes change nothing, and
\* only one of them is kept.
OnlySelected(t, j, f) ==
  [e \in Backends |-> IF e = get_best_extractor(t, j) THEN f ELSE Returns(<< >>)]

\* The compatible backends the rerun calls besides the selected one.
Others(t, j) ==
  {e \in Backends \ {get_best_extractor(t, j)} : is_compatible(e, t, j)}

Rerun(t, j, f, g) ==
  [e \in Backends |-> IF e = get_best_extractor(t, j) THEN f
                      ELSE IF e \in Others(t, j) THEN g[e]
                      ELSE Returns(<< >>)]

SelectedSuffices(t, j, f) ==
  RunPage(t, j, OnlySelected(t, j, f)).calls = <<get_best_extractor(t, j)>>

Brief(r) == [raised |-> r.raised, unique |-> r.unique]

\* Every result one iteration of the page loop can have for a document.
PageResults(t, j) ==
  UNION {IF SelectedSuffices(t, j, f)
         THEN {Brief(RunPage(t, j, OnlySelected(t, j, f)))}
         ELSE {Brief(RunPage(t, j, Rerun(t, j, f, g))) :
                 g \in [Others(t, j) -> Outcomes]} :
         f \in Outcomes}

\* A mutation of the tagging: the 1-based page number.
TagOneBased(tables, page_num) ==
  [i \in 1..Len(tables) |-> [page |-> page_num + 1, table |-> tables[i]]]

\* for table in unique_tables: table.attrs = {'page': page_num}
Tag(tables, page_num) ==
  [i \in 1..Len(tables) |-> [page |-> page_num, table |-> tables[i]]]

(* ------------------------ the layout compositor ------------------------ *)
(* pdf_to_docx, one page at a time.  A page's sheet is what PyMuPDF reads   *)
(* from it: the text blocks of page.get_text("blocks"), each a rectangle    *)
(* and a text (here the block's number), and the rectangles of              *)
(* page.find_tables().                                                      *)

Max(a, b) == IF a > b THEN a ELSE b

\* fitz.Rect(x0, y0, x1, y1)
Rect(x0, y0, x1, y1) == [x0 |-> x0, y0 |-> y0, x1 |-> x1, y1 |-> y1]

\* The upper half, the lower half and the whole of a page.
Upper == Rect(0, 0, 2, 1)

Lower == Rect(0, 1, 2, 2)

Whole == Rect(0, 0, 2, 2)

Rects == {Upper, Lower, Whole}

\* Rect.is_empty
is_empty(r) == r.x0 >= r.x1 \/ r.y0 >= r.y1

\* Rect.intersects: both rectangles and their intersection are non-empty.
intersects(a, b) ==
  /\ ~is_empty(a)
  /\ ~is_empty(b)
  /\ ~is_empty(Rect(Max(a.x0, b.x0), Max(a.y0, b.y0),
                    Min(a.x1, b.x1), Min(a.y1, b.y1)))

\* page.get_text("blocks"): the blocks in the order of the file.
Block(rect, no) == [rect |-> rect, no |-> no]

BlockLists ==
  {[i \in 1..Len(q) |-> Block(q[i], i)] : q \in SeqsUpTo(Rects, MaxBlocks)}

RegionLists == SeqsUpTo(Rects, MaxRegions)

\* blocks.sort(key=lambda b: b[1]): a stable sort by y0.
RECURSIVE InsertByY0(_, _)
InsertByY0(sorted, b) ==
  IF sorted = << >> THEN <<b>>
  ELSE IF Head(sorted).rect.y0 <= b.rect.y0
       THEN <<Head(sorted)>> \o InsertByY0(Tail(sorted), b)
       ELSE <<b>> \o sorted

RECURSIVE SortByY0(_)
SortByY0(blocks) ==
  IF blocks = << >> THEN << >>
  ELSE InsertByY0(SortByY0(SubSeq(blocks, 1, Len(blocks) - 1)), blocks[Len(blocks)])

\* One thing the styler added to the document: a page heading, a block's
\* text, a table's caption, a table, the empty paragraph after it, a page
\* break.  ref is the page, the block or the position in with_tables.
Unit(kind, ref) == [kind |-> kind, ref |-> ref]

\* [table for table in with_tables if ... table.attrs.get('page') == page_num],
\* as positions in with_tables.
PageTableRefs(with_tables, page_num) ==
  SelectSeq([i \in 1..Len(with_tables) |-> i],
            LAMBDA i : with_tables[i].page = page_num)

\* for block in blocks: if not overlaps_table: add_styled_paragraph(text)
TextUnits(blocks, table_positions) ==
  LET sorted == SortByY0(blocks)
      free == SelectSeq(sorted, LAMBDA b :
                ~\E k \in 1..Len(table_positions) :
                    intersects(b.rect, table_positions[k]))
  IN [i \in 1..Len(free) |-> Unit("text", free[i].no)]

\* add_table_from_dataframe -> add_styled_table: data is the column row and
\* the value rows; nothing is added when a row of data has no cell.
AddTable(ref, t) == IF t.ncols = 0 THEN << >> ELSE <<Unit("table", ref)>>

\* for table in page_tables: the caption, the table, the empty paragraph.
RECURSIVE TableUnits(_, _)
TableUnits(refs, with_tables) ==
  IF refs = << >> THEN << >>
  ELSE <<Unit("caption", Head(refs))>>
       \o AddTable(Head(refs), with_tables[Head(refs)].table)
       \o <<Unit("space", Head(refs))>>
       \o TableUnits(Tail(refs), with_tables)

\* One iteration of pdf_to_docx's page loop: what it adds to the document.
PagePlan(page_num, npages, blocks, regions, with_tables) ==
  LET page_tables == PageTableRefs(with_tables, page_num)
  IN <<Unit("heading", page_num + 1)>>
     \o (IF page_tables # << >>
         THEN TextUnits(blocks, regions) \o TableUnits(page_tables, with_tables)
         ELSE TextUnits(blocks, << >>))
     \o (IF page_num < npages - 1 THEN <<Unit("break", page_num + 1)>> ELSE << >>)

\* What extract_all_tables can have returned for a document of n pages with
\* the default page_nums: non-empty frames, tagged with pages of the
\* document in ascending order.
Ascending(tagged) ==
  \A i \in 1..Len(tagged) - 1 : tagged[i].page <= tagged[i + 1].page

TaggedTables(n) ==
  {w \in SeqsUpTo([page : 0..(n - 1), table : {Blank, Wide1}], MaxCand) :
     Ascending(w)}

(* ------------------------------ state ---------------------------------- *)

VARIABLES
  text,        \* the document's first page has extractable text
  java,        \* a Java runtime is reachable
  ndoc,        \* len(doc)
  requested,   \* the page numbers the loop has taken from page_nums so far
  all_tables,  \* extract_all_tables' accumulator of page-tagged tables
  xstate,      \* "running", "returned" or "raised"
  lib,         \* SpecPage: what each library did for the page
  page,        \* SpecPage: the locals of the page's loop iteration
  outcomes,    \* SpecExtract: the results a page of this document can have
  docx,        \* pdf_to_docx: the page loop's position, the sheet of the page
               \* composed last and the units added for it, the saving
  job_status,  \* app.py's job_status dictionary
  files,       \* the paths that exist on disk
  thread,      \* each job's process_file thread: where it is, what it holds
  env,         \* what the collaborators did for each job, and when it came
  clock,       \* time.time(), and how often it has advanced
  reply        \* the last response of the status, download or cleanup route

xvars == <<text, java, ndoc, requested, all_tables, xstate, lib, page, outcomes, docx>>

jvars == <<job_status, files, thread, env, clock, reply>>

vars == <<xvars, jvars>>

NoLib == [e \in Backends |-> Returns(<< >>)]

NoPage == [extractor |-> "none", first |-> << >>, raised |-> FALSE,
           calls |-> << >>, page_tables |-> << >>, unique |-> << >>]

NoSheet == [blocks |-> << >>, regions |-> << >>, at |-> << >>]

\* pdf_to_docx has not begun.
NoDocx == [page_num |-> 0, sheet |-> NoSheet, plan |-> << >>, saved |-> FALSE]

\* The libraries the iteration did not call leave no trace.
Called(l, calls) ==
  [e \in Backends |-> IF e \in Members(calls) THEN l[e] ELSE Returns(<< >>)]

NoClock == [now |-> 0, ticks |-> 0]

NoReply == [route |-> "none", job_id |-> 0, code |-> 0, body |-> "none"]

JobsIdle ==
  /\ job_status = << >>
  /\ files = << >>
  /\ thread = << >>
  /\ env = << >>
  /\ clock = NoClock
  /\ reply = NoReply

(* -------- SpecPage: extract_all_tables(pdf) on a one-page document ------ *)

InitPage ==
  /\ text \in BOOLEAN
  /\ java \in BOOLEAN
  /\ ndoc = 1
  /\ requested = << >>
  /\ all_tables = << >>
  /\ xstate = "running"
  /\ lib = NoLib
  /\ page = NoPage
  /\ outcomes = {}
  /\ docx = NoDocx
  /\ JobsIdle

PageDone(l) ==
  LET r == RunPage(text, java, l)
  IN /\ page' = r
     /\ lib' = Called(l, r.calls)
     /\ all_tables' = IF r.raised THEN << >> ELSE Tag(r.unique, 0)
     /\ xstate' = IF r.raised THEN "raised" ELSE "returned"

\* page_nums = range(len(doc)) = [0]: one iteration, then return all_tables;
\* an exception of the iteration leaves the function.
ExtractOnePage ==
  /\ xstate = "running"
  /\ requested = << >>
  /\ \E f \in Outcomes :
       IF SelectedSuffices(text, java, f)
       THEN PageDone(OnlySelected(text, java, f))
       ELSE \E g \in [Others(text, java) -> Outcomes] :
              PageDone(Rerun(text, java, f, g))
  /\ requested' = <<0>>
  /\ UNCHANGED <<text, java, ndoc, outcomes, docx, jvars>>

NextPage == ExtractOnePage

SpecPage == InitPage /\ [][NextPage]_vars

(* ---- SpecExtract: extract_all_tables(pdf, page_nums), any page_nums ---- *)

InitExtract ==
  /\ text \in BOOLEAN
  /\ java \in BOOLEAN
  /\ outcomes = PageResults(text, java)
  /\ ndoc \in 0..MaxPages
  /\ requested = << >>
  /\ all_tables = << >>
  /\ xstate = "running"
  /\ lib = NoLib
  /\ page = NoPage
  /\ docx = NoDocx
  /\ JobsIdle

\* if page_num >= len(doc): continue
SkipPage ==
  /\ xstate = "running"
  /\ Len(requested) < MaxReq
  /\ \E page_num \in 0..MaxPages :
       /\ page_num >= ndoc
       /\ requested' = Append(requested, page_num)
  /\ UNCHANGED <<text, java, ndoc, all_tables, xstate, lib, page, outcomes, docx, jvars>>

\* One iteration for a page of the document.
VisitPage ==
  /\ xstate = "running"
  /\ Len(requested) < MaxReq
  /\ \E page_num \in 0..MaxPages, r \in outcomes :
       /\ page_num < ndoc
       /\ requested' = Append(requested, page_num)
       /\ all_tables' = IF r.raised THEN all_tables
                        ELSE all_tables \o Tag(r.unique, page_num)
       /\ xstate' = IF r.raised THEN "raised" ELSE "running"
  /\ UNCHANGED <<text, java, ndoc, lib, page, outcomes, docx, jvars>>

\* page_nums is exhausted: return all_tables
ReturnTables ==
  /\ xstate = "running"
  /\ xstate' = "returned"
  /\ UNCHANGED <<text, java, ndoc, requested, all_tables, lib, page, outcomes, docx, jvars>>

\* pdf_to_docx(pdf, docx, with_tables=all_tables): one iteration of
\* for page_num in range(len(pdf)), on the sheet s of that page.
Compose(s) ==
  /\ xstate = "returned"
  /\ ~docx.saved
  /\ docx.page_num < ndoc
  /\ docx' = [page_num |-> docx.page_num + 1,
              sheet |-> s,
              plan |-> PagePlan(docx.page_num, ndoc, s.blocks, s.regions, all_tables),
              saved |-> FALSE]
  /\ UNCHANGED <<text, java, ndoc, requested, all_tables, xstate, lib, page, outcomes, jvars>>

\* The conversion of the file extract_all_tables has just read, on pages
\* with no text block or one, and no table region or one.
ComposePage ==
  \E b \in {q \in BlockLists : Len(q) <= 1 /\ Members(q) \subseteq {Block(Whole, 1)}},
     g \in {q \in RegionLists : Len(q) <= 1 /\ Members(q) \subseteq {Upper}} :
    Compose([blocks |-> b, regions |-> g, at |-> << >>])

\* doc.save(docx_path), after the last page.
SaveDocx ==
  /\ xstate = "returned"
  /\ ~docx.saved
  /\ docx.page_num = ndoc
  /\ docx' = [docx EXCEPT !.saved = TRUE]
  /\ UNCHANGED <<text, java, ndoc, requested, all_tables, xstate, lib, page, outcomes, jvars>>

NextExtract == SkipPage \/ VisitPage \/ ReturnTables \/ ComposePage \/ SaveDocx

SpecExtract == InitExtract /\ [][NextExtract]_vars

(* ------------- SpecDocx: pdf_to_docx on every page layout --------------- *)
(* The sheet also says where on the page each table of page_tables lies     *)
(* (at): the frames do not carry it and pdf_to_docx does not read it.       *)

InitDocx ==
  /\ text = FALSE
  /\ java = FALSE
  /\ outcomes = {}
  /\ ndoc \in 1..MaxPages
  /\ all_tables \in TaggedTables(ndoc)
  /\ requested = [i \in 1..ndoc |-> i - 1]
  /\ xstate = "returned"
  /\ lib = NoLib
  /\ page = NoPage
  /\ docx = NoDocx
  /\ JobsIdle

ComposeSheet ==
  \E b \in BlockLists, g \in RegionLists :
    \E a \in [1..Len(PageTableRefs(all_tables, docx.page_num)) -> Rects] :
      Compose([blocks |-> b, regions |-> g, at |-> a])

NextDocx == ComposeSheet \/ SaveDocx

SpecDocx == InitDocx /\ [][NextDocx]_vars

(* ------------- Spec: the jobs of the web application ------------------- *)
(* Job j owns four paths: its upload (in), its output (out), the temporary *)
(* PDF of image_to_searchable_pdf (tmp) and the intermediate PDF of a DOCX  *)
(* conversion (mid).  A path is absent, or holds what was last written.     *)

(* out_mtime is os.path.getmtime of the output, once it is written.         *)

NoFiles == [in |-> "absent", out |-> "absent", tmp |-> "absent", mid |-> "absent",
            out_mtime |-> 0]

Jobs == Range(Len(job_status))

\* The path the OCR step writes: the output, or the DOCX intermediate.
OcrTarget(j) == IF env[j].format = "pdf" THEN "out" ELSE "mid"

Goto(j, label) == thread' = [thread EXCEPT ![j].pc = label]

InitJobs ==
  /\ job_status = << >>
  /\ files = << >>
  /\ thread = << >>
  /\ env = << >>
  /\ clock = NoClock
  /\ reply = NoReply
  /\ outcomes = UNION {PageResults(t, j) : t \in BOOLEAN, j \in BOOLEAN}
  /\ text = FALSE
  /\ java = FALSE
  /\ ndoc = 0
  /\ requested = << >>
  /\ all_tables = << >>
  /\ xstate = "returned"
  /\ lib = NoLib
  /\ page = NoPage
  /\ docx = NoDocx

ExtractUnchanged ==
  UNCHANGED <<text, java, ndoc, requested, all_tables, xstate, lib, page, outcomes, docx>>

\* The thread reads no clock and answers no request.
ServiceUnchanged == UNCHANGED <<clock, reply>>

\* upload_file: save the upload, initialise job_status[job_id], start the
\* thread.  The extension decides the input type; the form the rest.
upload_file ==
  /\ Len(job_status) < MaxJobs
  /\ \E input \in {"image", "pdf"}, format \in {"pdf", "docx"}, detection \in BOOLEAN :
       /\ env' = Append(env, [input |-> input, format |-> format,
                              table_detection |-> detection,
                              ocr |-> "none", detect |-> "none", emit |-> "none",
                              submitted |-> clock.now])
       /\ files' = Append(files, [NoFiles EXCEPT !.in = "upload"])
       /\ job_status' = Append(job_status,
                               [status |-> "processing", progress |-> 0,
                                message |-> "Starting processing..."])
       /\ thread' = Append(thread, [pc |-> "begin", tables |-> << >>])
  /\ ExtractUnchanged
  /\ ServiceUnchanged

\* process_file, lines 100-101.
Begin(j) ==
  /\ thread[j].pc = "begin"
  /\ job_status' = [job_status EXCEPT ![j].message = "Processing file...",
                                      ![j].progress = 10]
  /\ Goto(j, "dispatch")
  /\ UNCHANGED <<files, env>>
  /\ ExtractUnchanged
  /\ ServiceUnchanged

\* process_file, lines 106-108 and 132-134.
Dispatch(j) ==
  /\ thread[j].pc = "dispatch"
  /\ job_status' = [job_status EXCEPT
                      ![j].message = IF env[j].input = "image"
                                     THEN "Processing image..." ELSE "Processing PDF...",
                      ![j].progress = 30]
  /\ Goto(j, IF env[j].format = "docx" THEN "mkmid"
             ELSE IF env[j].input = "image" THEN "mktemp" ELSE "ocr")
  /\ UNCHANGED <<files, env>>
  /\ ExtractUnchanged
  /\ ServiceUnchanged

\* tempfile.NamedTemporaryFile(suffix='.pdf', delete=False) of the DOCX
\* conversions (process_image_to_docx; process_file's PDF branch).
MakeIntermediate(j) ==
  /\ thread[j].pc = "mkmid"
  /\ files' = [files EXCEPT ![j].mid = "empty"]
  /\ Goto(j, IF env[j].input = "image" THEN "mktemp" ELSE "ocr")
  /\ UNCHANGED <<job_status, env>>
  /\ ExtractUnchanged
  /\ ServiceUnchanged

\* image_to_searchable_pdf, lines 79-80.
MakeTemp(j) ==
  /\ thread[j].pc = "mktemp"
  /\ files' = [files EXCEPT ![j].tmp = "empty"]
  /\ Goto(j, "image_to_pdf")
  /\ UNCHANGED <<job_status, env>>
  /\ ExtractUnchanged
  /\ ServiceUnchanged

\* image_to_pdf, outside the try: its exception leaves
\* image_to_searchable_pdf and reaches process_file's handler.
ImageToPdf(j) ==
  /\ thread[j].pc = "image_to_pdf"
  /\ \/ /\ files' = [files EXCEPT ![j].tmp = "plain"]
        /\ Goto(j, "ocr")
     \/ /\ files' = files
        /\ Goto(j, "except")
  /\ UNCHANGED <<job_status, env>>
  /\ ExtractUnchanged
  /\ ServiceUnchanged

\* Where image_to_searchable_pdf / pdf_to_searchable_pdf go once the try
\* block is left, by return or by the handler (return []).
AfterSearchable(j) == IF env[j].input = "image" THEN "unlink_tmp" ELSE "searchable"

\* A mutation of the handlers at enhanced_ocr.py:119 and :161: the exception
\* of the table detection leaves the function.
DetectionRaisedPropagates(j) == "except"

\* except Exception: return []  -- the table detection raised.
DetectionRaised(j) == AfterSearchable(j)

\* except Exception: return []  -- the OCR engine raised.
OcrRaised(j) == AfterSearchable(j)

\* ocrmypdf.ocr(input, output_path): writes the searchable PDF, or raises
\* and writes nothing.
Ocr(j) ==
  /\ thread[j].pc = "ocr"
  /\ \/ /\ files' = [files EXCEPT ![j][OcrTarget(j)] = "searchable",
                                   ![j].out_mtime = IF OcrTarget(j) = "out"
                                                    THEN clock.now ELSE @]
        /\ env' = [env EXCEPT ![j].ocr = "ok"]
        /\ Goto(j, IF env[j].table_detection THEN "detect" ELSE AfterSearchable(j))
     \/ /\ files' = files
        /\ env' = [env EXCEPT ![j].ocr = "failed"]
        /\ Goto(j, OcrRaised(j))
  /\ UNCHANGED job_status
  /\ ExtractUnchanged
  /\ ServiceUnchanged

\* tables = extract_all_tables(output_path), inside the try.
Detect(j) ==
  /\ thread[j].pc = "detect"
  /\ \E r \in outcomes :
       IF r.raised
       THEN /\ thread' = [thread EXCEPT ![j].pc = DetectionRaised(j)]
            /\ env' = [env EXCEPT ![j].detect = "failed"]
       ELSE /\ thread' = [thread EXCEPT ![j].pc = AfterSearchable(j),
                                        ![j].tables = Tag(r.unique, 0)]
            /\ env' = [env EXCEPT ![j].detect = "ok"]
  /\ UNCHANGED <<job_status, files>>
  /\ ExtractUnchanged
  /\ ServiceUnchanged

\* image_to_searchable_pdf's finally: os.unlink(temp_pdf_path).
UnlinkTemp(j) ==
  /\ thread[j].pc = "unlink_tmp"
  /\ files' = [files EXCEPT ![j].tmp = "absent"]
  /\ Goto(j, "searchable")
  /\ UNCHANGED <<job_status, env>>
  /\ ExtractUnchanged
  /\ ServiceUnchanged

\* The searchable-PDF function has returned to its caller.
Searchable(j) ==
  /\ thread[j].pc = "searchable"
  /\ IF env[j].format = "pdf"
     THEN /\ Goto(j, "completed")
          /\ job_status' = job_status
     ELSE IF env[j].input = "pdf"
     THEN /\ Goto(j, "pdf_to_docx")
          /\ job_status' = [job_status EXCEPT ![j].message = "Converting to DOCX...",
                                              ![j].progress = 70]
     ELSE /\ Goto(j, "pdf_to_docx")
          /\ job_status' = job_status
  /\ UNCHANGED <<files, env>>
  /\ ExtractUnchanged
  /\ ServiceUnchanged

\* A mutation of pdf_to_docx: the document is saved before the step that
\* fails.
PdfToDocxSavesFirst(source, emitted) ==
  IF source # "searchable" THEN [raised |-> TRUE, out |-> "absent"]
  ELSE [raised |-> ~emitted, out |-> "docx"]

\* pdf_to_docx(pdf_path, docx_path, ...): fitz.open raises on a file that is
\* no PDF (the empty temporary file a failed OCR leaves); the composition or
\* doc.save may raise; doc.save, the last statement, writes the output.
PdfToDocx(source, emitted) ==
  IF source # "searchable" THEN [raised |-> TRUE, out |-> "absent"]
  ELSE IF emitted THEN [raised |-> FALSE, out |-> "docx"]
  ELSE [raised |-> TRUE, out |-> "absent"]

ConvertToDocx(j) ==
  /\ thread[j].pc = "pdf_to_docx"
  /\ \E emitted \in BOOLEAN :
       LET done == PdfToDocx(files[j].mid, emitted)
       IN /\ files' = [files EXCEPT ![j].out = done.out,
                                   ![j].out_mtime = IF done.out = "absent"
                                                    THEN @ ELSE clock.now]
          /\ env' = [env EXCEPT ![j].emit =
                       IF files[j].mid # "searchable" THEN "none"
                       ELSE IF emitted THEN "ok" ELSE "failed"]
          /\ thread' = [thread EXCEPT ![j].pc = IF done.raised THEN "except"
                                                ELSE "unlink_mid",
                                      ![j].tables = << >>]
  /\ UNCHANGED job_status
  /\ ExtractUnchanged
  /\ ServiceUnchanged

\* if os.path.exists(temp_pdf_path): os.unlink(temp_pdf_path)
UnlinkIntermediate(j) ==
  /\ thread[j].pc = "unlink_mid"
  /\ files' = [files EXCEPT ![j].mid = "absent"]
  /\ Goto(j, "completed")
  /\ UNCHANGED <<job_status, env>>
  /\ ExtractUnchanged
  /\ ServiceUnchanged

\* process_file, line 175.
MarkCompleted(j) ==
  /\ thread[j].pc = "completed"
  /\ job_status' = [job_status EXCEPT ![j].status = "completed"]
  /\ thread' = [thread EXCEPT ![j].pc = "completed_progress", ![j].tables = << >>]
  /\ UNCHANGED <<files, env>>
  /\ ExtractUnchanged
  /\ ServiceUnchanged

\* process_file, line 176.
CompletedProgress(j) ==
  /\ thread[j].pc = "completed_progress"
  /\ job_status' = [job_status EXCEPT ![j].progress = 100]
  /\ Goto(j, "completed_message")
  /\ UNCHANGED <<files, env>>
  /\ ExtractUnchanged
  /\ ServiceUnchanged

\* process_file, line 177.
CompletedMessage(j) ==
  /\ thread[j].pc = "completed_message"
  /\ job_status' = [job_status EXCEPT ![j].message = "Processing completed!"]
  /\ Goto(j, "finally")
  /\ UNCHANGED <<files, env>>
  /\ ExtractUnchanged
  /\ ServiceUnchanged

\* process_file, line 180.
MarkError(j) ==
  /\ thread[j].pc = "except"
  /\ job_status' = [job_status EXCEPT ![j].status = "error"]
  /\ thread' = [thread EXCEPT ![j].pc = "error_message", ![j].tables = << >>]
  /\ UNCHANGED <<files, env>>
  /\ ExtractUnchanged
  /\ ServiceUnchanged

\* process_file, line 181.
ErrorMessage(j) ==
  /\ thread[j].pc = "error_message"
  /\ job_status' = [job_status EXCEPT ![j].message = "Error"]
  /\ Goto(j, "finally")
  /\ UNCHANGED <<files, env>>
  /\ ExtractUnchanged
  /\ ServiceUnchanged

\* finally: if os.path.exists(file_path): os.unlink(file_path)
Finally(j) ==
  /\ thread[j].pc = "finally"
  /\ files' = [files EXCEPT ![j].in = "absent"]
  /\ Goto(j, "done")
  /\ UNCHANGED <<job_status, env>>
  /\ ExtractUnchanged
  /\ ServiceUnchanged

Next ==
  \/ upload_file
  \/ \E j \in Jobs : Begin(j)
  \/ \E j \in Jobs : Dispatch(j)
  \/ \E j \in Jobs : MakeIntermediate(j)
  \/ \E j \in Jobs : MakeTemp(j)
  \/ \E j \in Jobs : ImageToPdf(j)
  \/ \E j \in Jobs : Ocr(j)
  \/ \E j \in Jobs : Detect(j)
  \/ \E j \in Jobs : UnlinkTemp(j)
  \/ \E j \in Jobs : Searchable(j)
  \/ \E j \in Jobs : ConvertToDocx(j)
  \/ \E j \in Jobs : UnlinkIntermediate(j)
  \/ \E j \in Jobs : MarkCompleted(j)
  \/ \E j \in Jobs : CompletedProgress(j)
  \/ \E j \in Jobs : CompletedMessage(j)
  \/ \E j \in Jobs : MarkError(j)
  \/ \E j \in Jobs : ErrorMessage(j)
  \/ \E j \in Jobs : Finally(j)

Init == InitJobs

Spec == Init /\ [][Next]_vars

(* ---- SpecService: the jobs, the other routes and the passing of time --- *)

\* The job ids a request can name: issued or not.
JobIds == Range(MaxJobs)

\* del job_status[job_id]
Removed == [status |-> "removed"]

\* job_id in job_status
InJobStatus(j) == j \in Jobs /\ job_status[j] # Removed

\* Time passes: by a second, or by an hour.
Tick ==
  /\ clock.ticks < MaxTicks
  /\ \E d \in {1, Hour} :
       clock' = [now |-> clock.now + d, ticks |-> clock.ticks + 1]
  /\ UNCHANGED <<job_status, files, thread, env, reply>>
  /\ ExtractUnchanged

\* check_status: what the route answers for job_id.
StatusBody(j) ==
  IF InJobStatus(j) THEN job_status[j] ELSE [status |-> "not_found"]

check_status(j) ==
  /\ reply' = [route |-> "status", job_id |-> j, code |-> 200, body |-> StatusBody(j)]
  /\ UNCHANGED <<job_status, files, thread, env, clock>>
  /\ ExtractUnchanged

\* download_file: send_file(output_path), or "File not found", 404.
Download(j) ==
  IF /\ InJobStatus(j)
     /\ job_status[j].status = "completed"
     /\ files[j].out # "absent"
  THEN [code |-> 200, body |-> files[j].out]
  ELSE [code |-> 404, body |-> "File not found"]

download_file(j) ==
  /\ reply' = [route |-> "download", job_id |-> j,
               code |-> Download(j).code, body |-> Download(j).body]
  /\ UNCHANGED <<job_status, files, thread, env, clock>>
  /\ ExtractUnchanged

\* 'created_at' in job_status[job_id] and
\* current_time - job_status[job_id]['created_at'] > 3600
Expired(j) ==
  /\ InJobStatus(j)
  /\ "created_at" \in DOMAIN job_status[j]
  /\ clock.now - job_status[j].created_at > Hour

\* A file of OUTPUT_FOLDER with file_age > 3600.
Stale(j) ==
  /\ files[j].out # "absent"
  /\ clock.now - files[j].out_mtime > Hour

\* cleanup: the loop over job_status, then the loop over OUTPUT_FOLDER.
cleanup ==
  /\ job_status' = IF \E j \in Jobs : Expired(j)
                   THEN [j \in Jobs |-> IF Expired(j) THEN Removed ELSE job_status[j]]
                   ELSE job_status
  /\ files' = IF \E j \in Jobs : Expired(j) \/ Stale(j)
              THEN [j \in Jobs |-> IF Expired(j) \/ Stale(j)
                                   THEN [files[j] EXCEPT !.out = "absent"]
                                   ELSE files[j]]
              ELSE files
  /\ reply' = [route |-> "cleanup", job_id |-> 0, code |-> 200,
               body |-> "Cleanup completed"]
  /\ UNCHANGED <<thread, env, clock>>
  /\ ExtractUnchanged

NextService ==
  \/ Next
  \/ Tick
  \/ cleanup
  \/ \E j \in JobIds : check_status(j)
  \/ \E j \in JobIds : download_file(j)

SpecService == Init /\ [][NextService]_vars

(* ======================= claims on the extraction ====================== *)

\* The backends of S in the factory's order.
InFactoryOrder(S) == SelectSeq(create_extractors, LAMBDA e : e \in S)

\* The choice C1 describes for a compatible set S.
ClaimedChoice(S) ==
  IF S = {} THEN "pymupdf"
  ELSE IF "camelot" \in S THEN "camelot"
  ELSE IF "tabula" \in S THEN "tabula"
  ELSE InFactoryOrder(S)[1]

\* C1: get_best_extractor returns Camelot if it is compatible, else Tabula if
\* it is compatible, else the first compatible backend, and PyMuPDF for the
\* empty compatible set; it always returns a backend.  Stated of the selection
\* rule on every compatible set, and of the backend the page loop selected.
C1_SelectionPriority ==
  /\ \A S \in SUBSET Backends :
       /\ SelectFrom(InFactoryOrder(S)) = ClaimedChoice(S)
       /\ SelectFrom(InFactoryOrder(S)) \in Backends
  /\ page.extractor # "none" =>
       /\ page.extractor \in Backends
       /\ page.extractor =
            ClaimedChoice({e \in Backends : is_compatible(e, text, java)})

\* C1's case: Camelot is not compatible, Tabula is, and Tabula was selected.
C1_Witness ==
  /\ xstate # "running"
  /\ ~text
  /\ java
  /\ page.extractor = "tabula"

\* The selected backend's own call raised (only PyMuPDF's can).
SelectedRaised == page.raised /\ page.calls = <<page.extractor>>

\* The compatible backends other than the selected one, in factory order.
Remaining ==
  SelectSeq(create_extractors,
            LAMBDA e : e # page.extractor /\ is_compatible(e, text, java))

RECURSIVE Concat(_)
Concat(lists) == IF lists = << >> THEN << >> ELSE Head(lists) \o Concat(Tail(lists))

\* What the remaining backends report for the page, one after the other.
RemainingResults ==
  Concat([i \in Range(Len(Remaining)) |->
            extract_tables(Remaining[i], lib[Remaining[i]]).tables])

\* C2: when the selected backend yields zero candidates the page is rerun
\* through every remaining compatible backend and deduplication receives the
\* union of their results; when it yields a candidate no other backend runs.
C2_FallbackRunsRemaining ==
  (xstate # "running" /\ ~SelectedRaised) =>
    IF page.first = << >>
    THEN /\ \A e \in Members(Remaining) : e \in Members(Tail(page.calls))
         /\ ~page.raised
         /\ Concat(page.page_tables) = RemainingResults
    ELSE page.calls = <<page.extractor>>

\* The signature C3 names: row count, column count, first 3 x 3 sample.
ClaimedSignature(t) ==
  <<Len(t.rows), t.ncols,
    Concat([i \in Range(Min(3, Len(t.rows))) |->
              SubSeq(t.rows[i], 1, Min(3, t.ncols))])>>

SamePageDistinctSignatures ==
  \A i, j \in Range(Len(all_tables)) :
    (i < j /\ all_tables[i].page = all_tables[j].page) =>
      ClaimedSignature(all_tables[i].table) # ClaimedSignature(all_tables[j].table)

\* C3 as stated: after extract_all_tables has processed any sequence of pages,
\* no two returned tables with the same page index share a dedup signature.
C3_Original == xstate = "returned" => SamePageDistinctSignatures

\* No page of the document is requested twice.
NoPageTwice ==
  \A i, j \in Range(Len(requested)) :
    (i < j /\ requested[i] < ndoc) => requested[i] # requested[j]

\* C3 amended: when no page of the document is requested twice (as with the
\* default, every page once), no two returned tables with the same page index
\* share a dedup signature.
C3_UniquePerPage ==
  (xstate = "returned" /\ NoPageTwice) => SamePageDistinctSignatures

\* C3's case: two pages visited once each, two tables kept on one page, and a
\* table of the same signature kept on the other.
C3_Witness ==
  /\ xstate = "returned"
  /\ NoPageTwice
  /\ \E i, j, k \in Range(Len(all_tables)) :
       /\ i # j
       /\ all_tables[i].page = all_tables[j].page
       /\ all_tables[k].page # all_tables[i].page
       /\ ClaimedSignature(all_tables[k].table) = ClaimedSignature(all_tables[i].table)

\* The order C4 names: border-based, heuristic-layout, geometry-aware.
SelectorPriority == <<"camelot", "tabula", "pymupdf">>

\* The non-empty candidates e reported for the page.
Reported(e) ==
  IF e \in Members(page.calls)
  THEN SelectSeq(extract_tables(e, lib[e]).tables, LAMBDA t : ~IsEmpty(t))
  ELSE << >>

Reporters(sig) ==
  {e \in Backends : \E i \in Range(Len(Reported(e))) : Signature(Reported(e)[i]) = sig}

FirstWith(tables, sig) ==
  tables[CHOOSE i \in Range(Len(tables)) :
           /\ Signature(tables[i]) = sig
           /\ \A k \in Range(i - 1) : Signature(tables[k]) # sig]

TopReporter(sig) ==
  SelectorPriority[CHOOSE i \in Range(Len(SelectorPriority)) :
                     /\ SelectorPriority[i] \in Reporters(sig)
                     /\ \A k \in Range(i - 1) : SelectorPriority[k] \notin Reporters(sig)]

\* C4: when several backends report candidates of one signature for a page,
\* the candidate kept is the one of the backend earliest in the selector's
\* priority order (Camelot, Tabula, PyMuPDF).
C4_HighestPriorityKept ==
  xstate = "returned" =>
    \A i \in Range(Len(page.unique)) :
      LET sig == Signature(page.unique[i])
      IN Cardinality(Reporters(sig)) > 1 =>
           page.unique[i] = FirstWith(Reported(TopReporter(sig)), sig)

\* Zero rows, or no cell that is not the empty string.
EntirelyEmpty(t) ==
  \/ Len(t.rows) = 0
  \/ \A i \in Range(Len(t.rows)) : \A k \in Range(Len(t.rows[i])) : t.rows[i][k] = ""

\* C5 as stated: a candidate with zero rows, or with rows and no non-empty
\* cell, never appears in the reconciled set.
C5_Original ==
  \A i \in Range(Len(page.unique)) : ~EntirelyEmpty(page.unique[i])

\* C5 amended: a candidate with zero rows or zero columns never appears in the
\* reconciled set (a candidate whose cells are all blank is kept).
C5_NoZeroSizedTable ==
  /\ \A i \in Range(Len(page.unique)) :
       Len(page.unique[i].rows) > 0 /\ page.unique[i].ncols > 0
  /\ \A i \in Range(Len(all_tables)) :
       Len(all_tables[i].table.rows) > 0 /\ all_tables[i].table.ncols > 0

\* C5's case: backends reported a zero-row and a zero-column candidate for
\* the page, and the page was reconciled.
C5_Witness ==
  /\ xstate = "returned"
  /\ \E i, k \in Range(Len(page.page_tables)) :
       /\ ZeroRows \in Members(page.page_tables[i])
       /\ ZeroCols \in Members(page.page_tables[k])

\* C6: combine_tables applied to its own output, wrapped as one candidate
\* list, returns the identical sequence of tables.
C6_Idempotent ==
  xstate = "returned" => combine_tables(<<page.unique>>) = page.unique

\* C6's case: two backends reported, a duplicate was dropped and two tables
\* were kept.
C6_Witness ==
  /\ xstate = "returned"
  /\ Len(page.page_tables) > 1
  /\ Len(page.unique) > 1
  /\ Len(Concat(page.page_tables)) > Len(page.unique)

\* C8: for each backend, when its library raises during extract_tables the
\* call returns an empty candidate list and raises nothing.
C8_BackendFailureAbsorbed ==
  \A e \in Members(page.calls) :
    lib[e].raise =>
      /\ ~extract_tables(e, lib[e]).raised
      /\ extract_tables(e, lib[e]).tables = << >>
      /\ xstate # "raised"

\* The candidate lists of page_tables in the order p.
Permuted(lists, p) == [i \in Range(Len(lists)) |-> lists[p[i]]]

Signatures(tables) == {Signature(tables[i]) : i \in Range(Len(tables))}

\* C15 as stated: combine_tables returns the same tables for every order of
\* the candidate lists it is given.
C15_Original ==
  \A p \in Permutations(Range(Len(page.page_tables))) :
    Members(combine_tables(Permuted(page.page_tables, p))) = Members(page.unique)

\* C15 amended: for every order of the candidate lists combine_tables returns
\* as many tables, with the same dedup signatures.
C15_SameSignaturesInAnyOrder ==
  xstate = "returned" =>
    \A p \in Permutations(Range(Len(page.page_tables))) :
      LET other == combine_tables(Permuted(page.page_tables, p))
      IN /\ Signatures(other) = Signatures(page.unique)
         /\ Len(other) = Len(page.unique)

\* C15's case: two fallback backends reported for the page, a table of the
\* second list has the signature of a table of the first and other content.
C15_Witness ==
  /\ xstate = "returned"
  /\ Len(page.page_tables) = 2
  /\ Wide1 \in Members(page.page_tables[1])
  /\ Wide2 \in Members(page.page_tables[2])
  /\ Len(page.unique) < Len(Concat(page.page_tables))

\* C16: two candidates of the same page whose table rectangles do not
\* overlap are never merged: both appear in the reconciled set.  The frames
\* carry no rectangle; two entries of one backend's list are two regions of
\* the page that the library detected apart from each other.
C16_NonOverlappingNeverMerged ==
  xstate = "returned" =>
    \A k \in Range(Len(page.page_tables)) :
      LET found == page.page_tables[k]
      IN \A i, j \in Range(Len(found)) :
           (i < j /\ ~IsEmpty(found[i]) /\ ~IsEmpty(found[j])) =>
             \E a, b \in Range(Len(page.unique)) :
               /\ a # b
               /\ page.unique[a] = found[i]
               /\ page.unique[b] = found[j]

(* ========================== claims on the jobs ========================= *)

\* The OCR step and, for a DOCX output, the emission both ran and succeeded.
OcrAndEmissionSucceeded(j) ==
  /\ env[j].ocr = "ok"
  /\ env[j].format = "docx" => env[j].emit = "ok"

\* C7: a failure raised in table detection never fails the job: when OCR and
\* emission succeed the job ends completed with its output artifact present,
\* whatever the backends did; and a job whose OCR succeeded and whose
\* emission has not failed is never in status error.
C7_DetectionNeverFailsJob ==
  \A j \in Jobs :
    /\ (thread[j].pc = "done" /\ OcrAndEmissionSucceeded(j)) =>
         /\ job_status[j].status = "completed"
         /\ files[j].out # "absent"
    /\ (env[j].ocr = "ok" /\ env[j].emit # "failed") =>
         job_status[j].status # "error"

\* C7's case: the table detection raised, OCR and the DOCX emission
\* succeeded, and the job is over.
C7_Witness ==
  \E j \in Jobs :
    /\ thread[j].pc = "done"
    /\ env[j].detect = "failed"
    /\ env[j].format = "docx"
    /\ OcrAndEmissionSucceeded(j)

\* C9: when the OCR engine fails, for every input type and output format,
\* the job never reaches status completed and ends with status error.
C9_OcrFailureFatal ==
  \A j \in Jobs :
    env[j].ocr = "failed" =>
      /\ job_status[j].status # "completed"
      /\ thread[j].pc = "done" => job_status[j].status = "error"

\* C10: whenever a job's status is error, no output artifact exists at its
\* output path.
C10_NoArtifactOnError ==
  \A j \in Jobs :
    job_status[j].status = "error" => files[j].out = "absent"

\* C10's case: a job in status error whose OCR had succeeded and whose
\* emission failed.
C10_Witness ==
  \E j \in Jobs :
    /\ job_status[j].status = "error"
    /\ env[j].ocr = "ok"
    /\ env[j].emit = "failed"

\* C11: every temporary intermediate PDF a conversion created (the plain PDF
\* of image_to_searchable_pdf, the intermediate PDF of a DOCX conversion) no
\* longer exists once the job's thread has left the conversion, whether it
\* left normally or by an exception.
C11_TemporariesRemoved ==
  \A j \in Jobs :
    thread[j].pc = "done" =>
      /\ files[j].tmp = "absent"
      /\ files[j].mid = "absent"

(* ================= claims on extraction and composition =============== *)

\* The page pdf_to_docx composed last, and its tables as positions in
\* with_tables.
Composed == docx.page_num > 0

ComposedTables == PageTableRefs(all_tables, docx.page_num - 1)

\* The tags of s, runs of one tag taken once.
RECURSIVE Runs(_)
Runs(s) ==
  IF Len(s) < 2 THEN s
  ELSE IF s[1] = s[2] THEN Runs(Tail(s))
  ELSE <<s[1]>> \o Runs(Tail(s))

\* s can be obtained from t by leaving elements out.
RECURSIVE IsSubsequence(_, _)
IsSubsequence(s, t) ==
  IF s = << >> THEN TRUE
  ELSE IF t = << >> THEN FALSE
  ELSE IF Head(s) = Head(t) THEN IsSubsequence(Tail(s), Tail(t))
  ELSE IsSubsequence(s, Tail(t))

\* The requested page numbers that are pages of the document.
PagesOfDocument == SelectSeq(requested, LAMBDA n : n < ndoc)

\* How often the table at position i of with_tables was added for the page
\* composed last.
TimesAdded(i) ==
  Cardinality({q \in Range(Len(docx.plan)) : docx.plan[q] = Unit("table", i)})

\* A 2x2 table.
Square == Frame(2, << <<"a", "b">>, <<"c", "d">> >>)

\* extract_all_tables on a one-page document whose only compatible backend
\* reports the tables s.
OnePage(s) ==
  Tag(RunPage(FALSE, FALSE, OnlySelected(FALSE, FALSE, Returns(s))).unique, 0)

TimesEmitted(n) ==
  Cardinality({i \in Range(Len(docx.plan)) : docx.plan[i] = Unit("text", n)})

\* Block b lies on a table that was added to the document for this page.
CoveredByEmittedTable(b) ==
  \E k \in Range(Len(ComposedTables)) :
    /\ Unit("table", ComposedTables[k]) \in Members(docx.plan)
    /\ intersects(b.rect, docx.sheet.at[k])

\* C12: for every page, each text block is added exactly once as free text,
\* or not at all and then it intersects the rectangle of a table added for
\* that page; no block is added twice and none is dropped uncovered.
C12_BlockOnceOrCovered ==
  Composed =>
    \A n \in Range(Len(docx.sheet.blocks)) :
      \/ TimesEmitted(n) = 1
      \/ TimesEmitted(n) = 0 /\ CoveredByEmittedTable(docx.sheet.blocks[n])

\* The free-text and table units of the composed page, in the order added.
Layout == SelectSeq(docx.plan, LAMBDA u : u.kind \in {"text", "table"})

\* The vertical top of a unit: its block's y0, or the y0 of the rectangle
\* its table lies at.
Top(u) ==
  IF u.kind = "text" THEN docx.sheet.blocks[u.ref].rect.y0
  ELSE docx.sheet.at[CHOOSE k \in Range(Len(ComposedTables)) :
                       ComposedTables[k] = u.ref].y0

\* C14: for a page with tables, the remaining free-text blocks and the page's
\* tables are added as one sequence ordered by vertical top coordinate, so a
\* table whose top lies above a free-text block is added before that block;
\* ties keep the original block order for text and the appearance order for
\* tables.
C14_OrderedByTop ==
  (Composed /\ ComposedTables # << >>) =>
    \A p, q \in Range(Len(Layout)) :
      p < q =>
        /\ Top(Layout[p]) <= Top(Layout[q])
        /\ (Top(Layout[p]) = Top(Layout[q]) /\ Layout[p].kind = Layout[q].kind) =>
             Layout[p].ref < Layout[q].ref

\* A job's status is processing, completed or error, it begins as
\* processing, its progress is within 0..100, and is 100 if it is completed.
StatusAndProgressInRange ==
  \A j \in Jobs :
    /\ job_status[j].status \in {"processing", "completed", "error"}
    /\ thread[j].pc = "begin" => job_status[j].status = "processing"
    /\ job_status[j].progress \in 0..100
    /\ job_status[j].status = "completed" => job_status[j].progress = 100

\* A step changes a status only from processing, and lowers no progress.
StatusOnceProgressUp ==
  \A j \in Jobs :
    /\ job_status'[j].status # job_status[j].status =>
         /\ job_status[j].status = "processing"
         /\ job_status'[j].status \in {"completed", "error"}
    /\ job_status'[j].progress >= job_status[j].progress

\* C19: for every job the status starts as processing and changes at most
\* once, to completed or to error, and never again; the progress stays
\* within 0..100, never decreases, and is 100 whenever the status is
\* completed.
C19_StatusAndProgress ==
  []StatusAndProgressInRange /\ [][StatusOnceProgressUp]_vars

(* ========================= claims on the service ======================= *)

\* C13: whenever the status route reports completed for a job, the download
\* route returns that job's output artifact and not a not-found response,
\* after any sequence of uploads, processing steps, polls and cleanups.
C13_CompletedIsFetchable ==
  \A j \in JobIds :
    StatusBody(j).status = "completed" =>
      /\ Download(j).code = 200
      /\ Download(j).body \in {"searchable", "docx"}

\* No entry and no output file is left of a job that was submitted more than
\* an hour ago.
OldJobsGone ==
  \A j \in Jobs :
    clock.now - env[j].submitted > Hour =>
      /\ ~InJobStatus(j)
      /\ files[j].out = "absent"

\* C18: after cleanup() runs, no job_status entry remains for a job that was
\* submitted more than one hour (3600 s) earlier, and that job's output file
\* has been removed.
C18_CleanupRemovesOldJobs == [][cleanup => OldJobsGone']_vars

====
